---- MODULE Spec2Model ----
(***************************************************************************)
(* Temporal identity / jurisdiction model of the WoCo commons data model   *)
(* (common/models.py, common/views.py, common/serializers.py,              *)
(* common/admin.py) and of the restore_auth management command.            *)
(*                                                                         *)
(* The identity tables are sequences of rows in primary-key (insertion)    *)
(* order; the primary key of a row is its position.  The affiliation and   *)
(* responsibility tables are sets of rows: where a query takes .first()    *)
(* of them, any of the rows may be the one that was inserted first.  The   *)
(* tables of stable rows map a primary key to a reference_code.            *)
(* Dates are small integers.                                               *)
(* facility_name maps the primary key of a facility identity to the name   *)
(* it was renamed to; a row that was never renamed has the name it was     *)
(* saved with, which no handler reads.  audited maps a model to the        *)
(* TimestampedModel columns of the first row of its table; the handlers    *)
(* of the earlier sections do not track these columns.                     *)
(* A query that ends in .first() is the set of rows the database may hand  *)
(* back as the first one: rows that tie on the ORDER BY key come back in   *)
(* an order the database does not specify.                                 *)
(***************************************************************************)
EXTENDS Integers, Sequences, FiniteSets, TLC

VARIABLES pfIdentities, auIdentities, affiliations, responsibilities, now,
          response, postalFacilities, administrativeUnits, postmarks, images,
          committed, transaction, run, facility_name, audited

\* the PostalFacility and AdministrativeUnit tables
stable == <<postalFacilities, administrativeUnits>>

\* the Postmark and PostmarkImage tables
catalogue == <<postmarks, images>>

\* the auth tables, the rows written in the open transaction of restore_auth
\* and the position of the command
auth == <<committed, transaction, run>>

\* the columns that only the handlers of the last sections read or write:
\* the facility_name of the PostalFacilityIdentity rows, and the
\* TimestampedModel columns of the rows written through the API
columns == <<facility_name, audited>>

vars == <<pfIdentities, auIdentities, affiliations, responsibilities, now,
          response, stable, catalogue, auth, columns>>

(* ---------------------------- bounds ---------------------------------- *)

MaxDate == 2
MaxIdentities == 2
MaxAffiliations == 2
MaxPermissionAffiliations == 1

\* the most rows an import file of restore_auth holds
MaxRows == 2

(* ---------------------------- domains --------------------------------- *)

\* effective_to_date IS NULL
NULL == 0

\* the value .first() gives on an empty queryset
None == 0

Dates == 1..MaxDate

\* primary keys of the stable entities of one family
Entities == {1, 2}

Families == {"PostalFacility", "AdministrativeUnit"}

\* a PostalFacilityIdentity / AdministrativeUnitIdentity row: the foreign
\* key to its stable entity and its effective interval
IdentityRows == [entity : Entities, from : Dates, to : Dates \cup {NULL}]

\* the dates of the affiliation track and of the clock
ClockDates == {1, 2}

\* primary keys of the PostalFacilityIdentity rows affiliations refer to
FacilityIdentityIds == {1, 2}

\* primary keys of AdministrativeUnit rows
Units == {1, 2}

\* primary keys of auth Group rows
Groups == {1, 2}

\* a JurisdictionalAffiliation row
AffiliationRows == [identity : FacilityIdentityIds, unit : Units,
                    from : ClockDates, to : ClockDates \cup {NULL}]

\* an AdministrativeUnitResponsibility row
ResponsibilityRows == [unit : Units, group : Groups, active : BOOLEAN]

\* the request methods the viewsets route
Methods == {"GET", "HEAD", "OPTIONS", "POST", "PUT", "PATCH", "DELETE"}

\* no request is being answered
NoResponse == [op |-> "none"]

(* ------------------------ identity resolution ------------------------- *)

\* the rows of the reverse relation `entity.identities`
Identities(table, e) == {i \in DOMAIN table : table[i].entity = e}

\* mutant: the isnull branch is lost, an open-ended row never matches
AtDateFilterNoOpenEnded(r, d) == r.from <= d /\ r.to > d

\* mutant: the upper bound is inclusive (effective_to_date__gte)
AtDateFilterClosed(r, d) == r.from <= d /\ (r.to = NULL \/ r.to >= d)

\* Q(effective_from_date__lte=d) &
\*   (Q(effective_to_date__isnull=True) | Q(effective_to_date__gt=d))
AtDateFilter(r, d) == r.from <= d /\ (r.to = NULL \/ r.to > d)

\* effective_to_date__isnull=True
CurrentFilter(r) == r.to = NULL

\* Meta.ordering = ['postal_facility', 'effective_from_date'], then .first():
\* within one facility, a row with the earliest effective_from_date
PostalFacilityIdentityOrderingFirst(table, S) ==
    {i \in S : \A j \in S : table[i].from <= table[j].from}

\* mutant: the unit identities are ordered ascending
AdministrativeUnitIdentityOrderingAscending(table, S) ==
    {i \in S : \A j \in S : table[i].from <= table[j].from}

\* Meta.ordering = ['administrative_unit', '-effective_from_date'], then
\* .first(): within one unit, a row with the latest effective_from_date
AdministrativeUnitIdentityOrderingFirst(table, S) ==
    {i \in S : \A j \in S : table[i].from >= table[j].from}

\* QuerySet.first(): None on an empty queryset
First(S) == IF S = {} THEN {None} ELSE S

PostalFacility_get_identity_at_date(table, e, d) ==
    First(PostalFacilityIdentityOrderingFirst(table,
        {i \in Identities(table, e) : AtDateFilter(table[i], d)}))

PostalFacility_get_current_identity(table, e) ==
    First(PostalFacilityIdentityOrderingFirst(table,
        {i \in Identities(table, e) : CurrentFilter(table[i])}))

AdministrativeUnit_get_identity_at_date(table, e, d) ==
    First(AdministrativeUnitIdentityOrderingFirst(table,
        {i \in Identities(table, e) : AtDateFilter(table[i], d)}))

AdministrativeUnit_get_current_identity(table, e) ==
    First(AdministrativeUnitIdentityOrderingFirst(table,
        {i \in Identities(table, e) : CurrentFilter(table[i])}))

get_identity_at_date(fam, table, e, d) ==
    IF fam = "PostalFacility"
    THEN PostalFacility_get_identity_at_date(table, e, d)
    ELSE AdministrativeUnit_get_identity_at_date(table, e, d)

get_current_identity(fam, table, e) ==
    IF fam = "PostalFacility"
    THEN PostalFacility_get_current_identity(table, e)
    ELSE AdministrativeUnit_get_current_identity(table, e)

\* the same rows inserted in reversed order
Reverse(s) == [i \in 1..Len(s) |-> s[Len(s) + 1 - i]]

Table(fam) == IF fam = "PostalFacility" THEN pfIdentities ELSE auIdentities

(* ----------------------------- actions -------------------------------- *)

\* restore_auth has not been started
Idle == [pc |-> "idle"]

Init ==
    /\ pfIdentities = <<>>
    /\ auIdentities = <<>>
    /\ affiliations = {}
    /\ responsibilities = {}
    /\ now = [today |-> 1, midnight |-> FALSE]
    /\ response = NoResponse
    /\ postalFacilities = <<>>
    /\ administrativeUnits = <<>>
    /\ postmarks = {}
    /\ images = {}
    /\ committed = {}
    /\ transaction = {}
    /\ run = Idle
    /\ facility_name = <<>>
    /\ audited = <<>>

\* PostalFacilityIdentityAdmin: a new identity row is saved
SavePostalFacilityIdentity ==
    /\ response = NoResponse
    /\ Len(pfIdentities) + Len(auIdentities) < MaxIdentities
    /\ \E r \in IdentityRows :
           /\ pfIdentities' = Append(pfIdentities, r)
           /\ UNCHANGED <<auIdentities, affiliations, responsibilities, now, response,
                          stable, catalogue, auth, columns>>

\* AdministrativeUnitIdentityAdmin: a new identity row is saved
SaveAdministrativeUnitIdentity ==
    /\ response = NoResponse
    /\ Len(pfIdentities) + Len(auIdentities) < MaxIdentities
    /\ \E r \in IdentityRows :
           /\ auIdentities' = Append(auIdentities, r)
           /\ UNCHANGED <<pfIdentities, affiliations, responsibilities, now, response,
                          stable, catalogue, auth, columns>>

\* entity.get_identity_at_date(d), run on the store and on a store holding
\* the same rows inserted in reversed order
GetIdentityAtDate ==
    /\ response = NoResponse
    /\ \E fam \in Families, e \in Entities, d \in Dates :
       \E res \in get_identity_at_date(fam, Table(fam), e, d) :
       \E mir \in get_identity_at_date(fam, Reverse(Table(fam)), e, d) :
           /\ response' = [op |-> "get_identity_at_date", family |-> fam,
                           entity |-> e, date |-> d, result |-> res,
                           mirror |-> mir]
           /\ UNCHANGED <<pfIdentities, auIdentities, affiliations,
                          responsibilities, now,
                          stable, catalogue, auth, columns>>

\* entity.get_current_identity(), run on the store and on the reversed store
GetCurrentIdentity ==
    /\ response = NoResponse
    /\ \E fam \in Families, e \in Entities :
       \E res \in get_current_identity(fam, Table(fam), e) :
       \E mir \in get_current_identity(fam, Reverse(Table(fam)), e) :
           /\ response' = [op |-> "get_current_identity", family |-> fam,
                           entity |-> e, date |-> 0, result |-> res,
                           mirror |-> mir]
           /\ UNCHANGED <<pfIdentities, auIdentities, affiliations,
                          responsibilities, now,
                          stable, catalogue, auth, columns>>

\* the answer is handed to the caller; the next request can be served
Deliver ==
    /\ response # NoResponse
    /\ response' = NoResponse
    /\ UNCHANGED <<pfIdentities, auIdentities, affiliations, responsibilities,
                   now,
                          stable, catalogue, auth, columns>>

IdentityNext ==
    \/ SavePostalFacilityIdentity
    \/ SaveAdministrativeUnitIdentity
    \/ GetIdentityAtDate
    \/ GetCurrentIdentity
    \/ Deliver

IdentitySpec == Init /\ [][IdentityNext]_vars

(* ------------------- properties: identity resolution ------------------ *)

\* d lies in the half-open interval [effective_from, effective_to) of row r
InInterval(r, d) == r.from <= d /\ (r.to = NULL \/ d < r.to)

\* the table the last request was answered from, and that table with its
\* rows inserted in reversed order
Asked == Table(response.family)

AskedMirror == Reverse(Asked)

\* the identities of the entity the last request asked about
AskedIdentities == {i \in DOMAIN Asked : Asked[i].entity = response.entity}

\* the identities of that entity whose interval contains the asked date
Holders == {i \in AskedIdentities : InInterval(Asked[i], response.date)}

\* the open-ended identities of that entity
OpenEnded == {i \in AskedIdentities : Asked[i].to = NULL}

\* no date lies in the intervals of two identities of the asked entity
NonOverlapping ==
    \A i, j \in AskedIdentities :
        i # j => \A d \in Dates : ~(InInterval(Asked[i], d) /\ InInterval(Asked[j], d))

LatestFrom(S) == {i \in S : \A j \in S : Asked[j].from <= Asked[i].from}

AnsweredAtDate == response.op = "get_identity_at_date"

AnsweredCurrent == response.op = "get_current_identity"

\* C1: for an entity of either family whose identity intervals are pairwise
\* non-overlapping, get_identity_at_date returns the identity whose interval
\* contains the date when there is one, and None when the date lies in no
\* interval.
C1_ResolveNonOverlapping ==
    (AnsweredAtDate /\ NonOverlapping) =>
        IF Holders = {} THEN response.result = None
        ELSE response.result \in Holders /\ Cardinality(Holders) = 1

\* C1 witness: an entity with two non-empty, non-overlapping identities was
\* resolved at a date inside one of them.
C1_Witness ==
    /\ AnsweredAtDate /\ NonOverlapping
    /\ Cardinality({i \in AskedIdentities : \E d \in Dates : InInterval(Asked[i], d)}) >= 2
    /\ response.result \in Holders

C3_FacilityOverlapLatest ==
    (AnsweredAtDate /\ response.family = "PostalFacility"
        /\ Cardinality(Holders) >= 2)
    => response.result \in LatestFrom(Holders)

\* C4: when two or more identities of an AdministrativeUnit contain the
\* target date, AdministrativeUnit.get_identity_at_date returns one with the
\* latest effective_from.
C4_UnitOverlapLatest ==
    (AnsweredAtDate /\ response.family = "AdministrativeUnit"
        /\ Cardinality(Holders) >= 2)
    => response.result \in LatestFrom(Holders)

\* C4 witness: a unit with two overlapping identities that start on different
\* dates was resolved at a date inside both.
C4_Witness ==
    /\ AnsweredAtDate /\ response.family = "AdministrativeUnit"
    /\ \E i, j \in Holders : Asked[i].from < Asked[j].from
    /\ response.result \in LatestFrom(Holders)

\* C5: get_current_identity of either family returns the open-ended identity
\* with the latest effective_from when there are several, the only one when
\* there is exactly one, and None when there is none.
C5_CurrentLatest ==
    AnsweredCurrent =>
        IF OpenEnded = {} THEN response.result = None
        ELSE response.result \in LatestFrom(OpenEnded)

\* the interval of the identity a result names (None has none)
IntervalOf(table, pk) ==
    IF pk = None THEN <<NULL, NULL>> ELSE <<table[pk].from, table[pk].to>>

\* C6: resolution does not depend on storage order: the store and the store
\* with the same rows inserted in reversed order answer get_identity_at_date
\* and get_current_identity with an identity of the same interval.
C6_StorageOrderIndependent ==
    (AnsweredAtDate \/ AnsweredCurrent) =>
        IntervalOf(Asked, response.result) = IntervalOf(AskedMirror, response.mirror)

(* ------------------------- responsible groups ------------------------- *)

\* effective_to_date__gte=Now(): the DATE column is compared with the current
\* timestamp as the instant 00:00:00 of its day, so it is >= Now() on a later
\* day, and on the same day only at the instant of midnight itself
ToDateGteNow(to, today, midnight) == to > today \/ (to = today /\ midnight)

\* Q(effective_to_date__isnull=True) | Q(effective_to_date__gte=Now())
CurrentAffiliationFilter(r, today, midnight) ==
    r.to = NULL \/ ToDateGteNow(r.to, today, midnight)

\* [aff.administrative_unit for aff in affiliations], as used by __in
AdminUnits(table, pfi, today, midnight) ==
    {r.unit : r \in {q \in table :
        /\ q.identity = pfi
        /\ CurrentAffiliationFilter(q, today, midnight)}}

\* filter(administrative_unit__in=admin_units, is_active=True)
ResponsibilityFilter(r, units) == r.unit \in units /\ r.active

\* Postmark.get_responsible_groups of a postmark of facility identity pfi:
\* the list [resp.group for resp in responsibilities], as the number of
\* times each group occurs in it
get_responsible_groups(affs, resps, pfi, today, midnight) ==
    [g \in Groups |->
        Cardinality({r \in resps :
            /\ ResponsibilityFilter(r, AdminUnits(affs, pfi, today, midnight))
            /\ r.group = g})]

\* the groups that occur in a list of groups
GroupsIn(list) == {g \in DOMAIN list : list[g] > 0}

\* mutant: every group of the user must be responsible
has_object_permission_all(method, user_groups, responsible_groups) ==
    \/ method \in {"GET", "HEAD", "OPTIONS"}
    \/ \A group \in user_groups : group \in GroupsIn(responsible_groups)

\* IsResponsibleForRegion.has_object_permission on a Postmark
has_object_permission(method, user_groups, responsible_groups) ==
    \/ method \in {"GET", "HEAD", "OPTIONS"}
    \/ \E group \in user_groups : group \in GroupsIn(responsible_groups)

\* JurisdictionalAffiliationAdmin: a new affiliation row is saved
SaveAffiliation(max) ==
    /\ response = NoResponse
    /\ Cardinality(affiliations) < max
    /\ \E r \in AffiliationRows :
           /\ r \notin affiliations
           /\ affiliations' = affiliations \cup {r}
           /\ UNCHANGED <<pfIdentities, auIdentities, responsibilities, now,
                          response,
                          stable, catalogue, auth, columns>>

\* AdministrativeUnitResponsibilityViewSet.perform_create: a new row is
\* saved unless a row for the same (administrative_unit, group) exists
SaveResponsibility ==
    /\ response = NoResponse
    /\ \E r \in ResponsibilityRows :
           /\ \A q \in responsibilities : ~(q.unit = r.unit /\ q.group = r.group)
           /\ responsibilities' = responsibilities \cup {r}
           /\ UNCHANGED <<pfIdentities, auIdentities, affiliations, now, response,
                          stable, catalogue, auth, columns>>

\* the clock: the day changes at the instant of midnight, then time moves on
\* within the day
Tick ==
    /\ response = NoResponse
    /\ now.midnight \/ now.today + 1 \in ClockDates
    /\ now' = IF now.midnight THEN [now EXCEPT !.midnight = FALSE]
              ELSE [today |-> now.today + 1, midnight |-> TRUE]
    /\ UNCHANGED <<pfIdentities, auIdentities, affiliations, responsibilities,
                   response,
                          stable, catalogue, auth, columns>>

\* postmark.get_responsible_groups() for a postmark of some facility identity
GetResponsibleGroups ==
    /\ response = NoResponse
    /\ \E pfi \in FacilityIdentityIds :
           /\ response' = [op |-> "get_responsible_groups", identity |-> pfi,
                           result |-> get_responsible_groups(affiliations,
                                        responsibilities, pfi, now.today,
                                        now.midnight)]
           /\ UNCHANGED <<pfIdentities, auIdentities, affiliations,
                          responsibilities, now,
                          stable, catalogue, auth, columns>>

\* a detail request on a postmark reaches the object permission check
CheckObjectPermission ==
    /\ response = NoResponse
    /\ \E pfi \in FacilityIdentityIds, method \in Methods,
          user_groups \in SUBSET Groups :
           LET responsible_groups ==
                   get_responsible_groups(affiliations, responsibilities, pfi,
                                          now.today, now.midnight)
           IN  /\ response' = [op |-> "has_object_permission", method |-> method,
                               user_groups |-> user_groups,
                               responsible |-> responsible_groups,
                               result |-> has_object_permission(method,
                                            user_groups, responsible_groups)]
               /\ UNCHANGED <<pfIdentities, auIdentities, affiliations,
                              responsibilities, now,
                          stable, catalogue, auth, columns>>

GroupsNext ==
    \/ SaveAffiliation(MaxAffiliations)
    \/ SaveResponsibility
    \/ GetResponsibleGroups
    \/ Tick
    \/ Deliver

GroupsSpec == Init /\ [][GroupsNext]_vars

PermissionNext ==
    \/ SaveAffiliation(MaxPermissionAffiliations)
    \/ SaveResponsibility
    \/ CheckObjectPermission
    \/ Tick
    \/ Deliver

PermissionSpec == Init /\ [][PermissionNext]_vars

(* ------------------- properties: responsible groups ------------------- *)

\* the affiliations of the asked facility identity whose interval
\* [effective_from, effective_to) contains the day of the call
AffiliationsInForce ==
    {r \in affiliations :
        /\ r.identity = response.identity
        /\ InInterval(r, now.today)}

\* the groups with an active responsibility for a unit of such an affiliation
GroupsInForce ==
    {r.group : r \in {q \in responsibilities :
        q.active /\ \E a \in AffiliationsInForce : a.unit = q.unit}}

AnsweredGroups == response.op = "get_responsible_groups"

\* C7: get_responsible_groups takes into account only the affiliations whose
\* interval contains the current date: every group it returns has an active
\* responsibility for the unit of such an affiliation.
C7_OnlyAffiliationsInForce ==
    AnsweredGroups => GroupsIn(response.result) \subseteq GroupsInForce

\* C8: the list returned by get_responsible_groups never contains the same
\* group twice.
C8_NoDuplicateGroups ==
    AnsweredGroups => \A g \in Groups : response.result[g] <= 1

\* C9: as a set, get_responsible_groups returns exactly the groups of the
\* active responsibilities of the units of the current affiliations of the
\* postmark's facility identity, the empty collection when there is none.
C9_ExactlyActiveGroups ==
    AnsweredGroups => GroupsIn(response.result) = GroupsInForce

AnsweredPermission == response.op = "has_object_permission"

\* C10: the object permission permits every GET, HEAD or OPTIONS request and
\* permits any other request exactly when a group of the principal is among
\* the postmark's responsible groups; with no responsible group every
\* mutating request is denied.
C10_PermissionByGroup ==
    AnsweredPermission =>
        /\ response.method \in {"GET", "HEAD", "OPTIONS"} => response.result
        /\ response.method \notin {"GET", "HEAD", "OPTIONS"} =>
              (response.result <=>
                  response.user_groups \cap GroupsIn(response.responsible) # {})
        /\ (GroupsIn(response.responsible) = {}
                /\ response.method \notin {"GET", "HEAD", "OPTIONS"})
              => ~response.result

\* C10 witness: a mutating request by a principal with a group among the
\* postmark's responsible groups, and with a group that is not, was permitted.
C10_Witness ==
    /\ AnsweredPermission
    /\ response.method = "DELETE"
    /\ response.user_groups \cap GroupsIn(response.responsible) # {}
    /\ response.user_groups \ GroupsIn(response.responsible) # {}
    /\ response.result

(* ------------------------- catalogue endpoints ------------------------ *)

\* postmark_key, unique: the rows of the Postmark table are told apart by it
PostmarkKeys == {1}

\* two of the IMAGE_VIEW_CHOICES
ImageViews == {"FULL", "DETAIL"}

\* a Postmark row
PostmarkRows == [key : PostmarkKeys, identity : FacilityIdentityIds]

\* a PostmarkImage row
ImageRows == [postmark : PostmarkKeys, view : ImageViews]

\* request.user of a request without a session
AnonymousUser == [authenticated |-> FALSE, groups |-> {}]

\* request.user: the anonymous user, or a user with its groups
Principals ==
    {AnonymousUser} \cup [authenticated : {TRUE}, groups : SUBSET Groups]

\* the viewsets of common/views.py
ViewSets ==
    {"PostalFacilityViewSet", "PostalFacilityIdentityViewSet",
     "AdministrativeUnitViewSet", "AdministrativeUnitIdentityViewSet",
     "AdministrativeUnitResponsibilityViewSet",
     "JurisdictionalAffiliationViewSet", "PostmarkShapeViewSet",
     "LetteringStyleViewSet", "FramingStyleViewSet", "ColorViewSet",
     "DateFormatViewSet", "PostmarkViewSet", "PostmarkImageViewSet",
     "PostmarkValuationViewSet", "PostmarkPublicationViewSet",
     "PostmarkPublicationReferenceViewSet", "PostcoverViewSet",
     "PostcoverImageViewSet"}

\* permission_classes of a viewset
permission_classes(view) ==
    IF view = "PostmarkViewSet"
    THEN {"IsAuthenticatedOrReadOnly", "IsResponsibleForRegion"}
    ELSE IF view = "AdministrativeUnitResponsibilityViewSet"
    THEN {"IsAuthenticated"}
    ELSE {"IsAuthenticatedOrReadOnly"}

\* mutant: IsAuthenticatedOrReadOnly grants every request
has_permission_always(class, method, user) ==
    IF class = "IsAuthenticated" THEN user.authenticated ELSE TRUE

\* has_permission of a permission class: IsResponsibleForRegion does not
\* define it and inherits BasePermission.has_permission, which is True
has_permission(class, method, user) ==
    IF class = "IsAuthenticatedOrReadOnly"
    THEN method \in {"GET", "HEAD", "OPTIONS"} \/ user.authenticated
    ELSE IF class = "IsAuthenticated"
    THEN user.authenticated
    ELSE TRUE

\* APIView.check_permissions: every permission class must grant the request
check_permissions(view, method, user) ==
    \A class \in permission_classes(view) : has_permission(class, method, user)

\* APIView.check_object_permissions, called by get_object() on detail routes:
\* IsAuthenticatedOrReadOnly inherits BasePermission.has_object_permission,
\* which is True; IsResponsibleForRegion is asked about the postmark
check_object_permissions(view, method, user, responsible_groups) ==
    "IsResponsibleForRegion" \in permission_classes(view)
        => has_object_permission(method, user.groups, responsible_groups)

\* the facility identity of the postmark with the given key
IdentityOf(key) == (CHOOSE p \in postmarks : p.key = key).identity

\* the answer to an endpoint request
Answer(op, user, identity, status) ==
    [op |-> op, user |-> user, identity |-> identity, status |-> status]

\* the catalogue tables are left as they are
CatalogueUnchanged == UNCHANGED <<postmarks, images>>

\* the tables the catalogue endpoints never write
ApiFrame ==
    UNCHANGED <<pfIdentities, auIdentities, affiliations, responsibilities,
                now, stable, auth, columns>>

\* PostmarkImageAdmin: staff save an image of a stored postmark
SavePostmarkImage ==
    /\ response = NoResponse
    /\ \E r \in ImageRows :
           /\ \E p \in postmarks : p.key = r.postmark
           /\ r \notin images
           /\ images' = images \cup {r}
           /\ UNCHANGED <<postmarks, response>>
           /\ ApiFrame

\* POST /postmarks/: PostmarkViewSet.create.  A list route: only
\* check_permissions runs, no object permission is asked.  The unique
\* postmark_key is validated by the serializer.
CreatePostmark ==
    /\ response = NoResponse
    /\ \E user \in Principals, r \in PostmarkRows :
           /\ IF ~check_permissions("PostmarkViewSet", "POST", user)
              THEN /\ response' = Answer("create_postmark", user, r.identity, 403)
                   /\ CatalogueUnchanged
              ELSE IF \E p \in postmarks : p.key = r.key
              THEN /\ response' = Answer("create_postmark", user, r.identity, 400)
                   /\ CatalogueUnchanged
              ELSE /\ response' = Answer("create_postmark", user, r.identity, 201)
                   /\ postmarks' = postmarks \cup {r}
                   /\ images' = images
           /\ ApiFrame

\* POST /postmark-images/: PostmarkImageViewSet.create.  The serializer has
\* no postmark field, so the INSERT carries no PostmarkID and the database
\* refuses it (IntegrityError, surfaced as a server error)
CreatePostmarkImage ==
    /\ response = NoResponse
    /\ \E user \in Principals, identity \in FacilityIdentityIds :
           /\ response' = Answer("create_image", user, identity,
                  IF check_permissions("PostmarkImageViewSet", "POST", user)
                  THEN 500 ELSE 403)
           /\ CatalogueUnchanged
           /\ ApiFrame

\* PUT /postmark-images/{id}/: PostmarkImageViewSet.update
UpdatePostmarkImage ==
    /\ response = NoResponse
    /\ \E user \in Principals, r \in images, view \in ImageViews :
           /\ IF /\ check_permissions("PostmarkImageViewSet", "PUT", user)
                 /\ check_object_permissions("PostmarkImageViewSet", "PUT", user,
                        get_responsible_groups(affiliations, responsibilities,
                            IdentityOf(r.postmark), now.today, now.midnight))
              THEN /\ response' = Answer("update_image", user,
                                         IdentityOf(r.postmark), 200)
                   /\ images' = (images \ {r}) \cup {[r EXCEPT !.view = view]}
              ELSE /\ response' = Answer("update_image", user,
                                         IdentityOf(r.postmark), 403)
                   /\ images' = images
           /\ postmarks' = postmarks
           /\ ApiFrame

\* DELETE /postmark-images/{id}/: PostmarkImageViewSet.destroy
DestroyPostmarkImage ==
    /\ response = NoResponse
    /\ \E user \in Principals, r \in images :
           /\ IF /\ check_permissions("PostmarkImageViewSet", "DELETE", user)
                 /\ check_object_permissions("PostmarkImageViewSet", "DELETE",
                        user,
                        get_responsible_groups(affiliations, responsibilities,
                            IdentityOf(r.postmark), now.today, now.midnight))
              THEN /\ response' = Answer("destroy_image", user,
                                         IdentityOf(r.postmark), 204)
                   /\ images' = images \ {r}
              ELSE /\ response' = Answer("destroy_image", user,
                                         IdentityOf(r.postmark), 403)
                   /\ images' = images
           /\ postmarks' = postmarks
           /\ ApiFrame

\* POST /postmark-valuations/: PostmarkValuationViewSet.create.  The
\* serializer has no postmark field and the viewset no perform_create, so
\* the INSERT carries no PostmarkID and the database refuses it.  No other
\* handler writes a PostmarkValuation row (PostmarkValuationInline sits under
\* InlineRevisionMixin, which saves no instance), so the table stays empty
\* and is not a variable
CreatePostmarkValuation ==
    /\ response = NoResponse
    /\ \E user \in Principals, identity \in FacilityIdentityIds :
           /\ response' = Answer("create_valuation", user, identity,
                  IF check_permissions("PostmarkValuationViewSet", "POST", user)
                  THEN 500 ELSE 403)
           /\ CatalogueUnchanged
           /\ ApiFrame

ApiNext ==
    \/ SaveAffiliation(MaxPermissionAffiliations)
    \/ SaveResponsibility
    \/ SavePostmarkImage
    \/ CreatePostmark
    \/ CreatePostmarkImage
    \/ UpdatePostmarkImage
    \/ DestroyPostmarkImage
    \/ CreatePostmarkValuation
    \/ Deliver

ApiSpec == Init /\ [][ApiNext]_vars

(* ------------------- properties: catalogue endpoints ------------------ *)

\* the requests that create a postmark, or create, modify or delete an image
\* or a valuation
JurisdictionRequests ==
    {"create_postmark", "create_image", "update_image", "destroy_image",
     "create_valuation"}

\* the last request came from an authenticated principal none of whose
\* groups has an active responsibility for a unit that governs, today, the
\* facility identity the request is about
AnsweredOutsider ==
    /\ response.op \in JurisdictionRequests
    /\ response.user.authenticated
    /\ response.user.groups \cap GroupsInForce = {}

\* C11: a request of an authenticated principal who is in no group
\* responsible for a unit currently governing a facility identity neither
\* creates a postmark for that facility identity nor creates, modifies or
\* deletes an image or a valuation of one of its postmarks: the step that
\* answers such a request leaves the catalogue tables unchanged.
C11_OnlyResponsibleGroupsAct ==
    [][(response = NoResponse /\ AnsweredOutsider')
          => UNCHANGED <<postmarks, images>>]_vars

(* ---------------------- jurisdiction-name resolution ------------------ *)

\* the dates a caller may pass as today: today may lie after every date a
\* stored row carries
TodayDates == 1..(MaxDate + 1)

\* mutant: the two modes are conflated, the unit's current identity is taken
get_administrative_unit_identity_current(table, a) ==
    AdministrativeUnit_get_current_identity(table, a.unit)

\* JurisdictionalAffiliation.get_administrative_unit_identity:
\* self.administrative_unit.get_identity_at_date(self.effective_from_date)
get_administrative_unit_identity(table, a) ==
    AdministrativeUnit_get_identity_at_date(table, a.unit, a.from)

\* affiliation.get_administrative_unit_identity() on an affiliation instance;
\* the method reads only its administrative_unit and effective_from_date
GetAdministrativeUnitIdentity ==
    /\ response = NoResponse
    /\ \E a \in AffiliationRows :
       \E res \in get_administrative_unit_identity(auIdentities, a) :
           /\ response' = [op |-> "get_administrative_unit_identity",
                           family |-> "AdministrativeUnit", entity |-> a.unit,
                           date |-> a.from, result |-> res]
           /\ UNCHANGED <<pfIdentities, auIdentities, affiliations,
                          responsibilities, now, stable, catalogue, auth, columns>>

\* unit.get_identity_at_date(today): the name of the unit as of today
GetIdentityAsOfToday ==
    /\ response = NoResponse
    /\ \E unit \in Units, today \in TodayDates :
       \E res \in AdministrativeUnit_get_identity_at_date(auIdentities, unit,
                                                          today) :
           /\ response' = [op |-> "get_identity_as_of_today",
                           family |-> "AdministrativeUnit", entity |-> unit,
                           date |-> today, result |-> res]
           /\ UNCHANGED <<pfIdentities, auIdentities, affiliations,
                          responsibilities, now, stable, catalogue, auth, columns>>

NameNext ==
    \/ SaveAdministrativeUnitIdentity
    \/ GetAdministrativeUnitIdentity
    \/ GetIdentityAsOfToday
    \/ Deliver

NameSpec == Init /\ [][NameNext]_vars

(* --------------- properties: jurisdiction-name resolution ------------- *)

AnsweredAsOfStart == response.op = "get_administrative_unit_identity"

AnsweredAsOfToday == response.op = "get_identity_as_of_today"

\* the asked unit was renamed at date d2: its identities are n1, valid until
\* d2, and n2, valid from d2
Renamed(n1, n2, d2) ==
    /\ AskedIdentities = {n1, n2}
    /\ n1 # n2
    /\ Asked[n1].from < d2
    /\ Asked[n1].to = d2
    /\ Asked[n2].from = d2
    /\ Asked[n2].to = NULL

\* C12: for a unit renamed at D2 (N1 valid until D2, N2 valid from D2) and an
\* affiliation to it that starts at D1 < D2, within N1,
\* get_administrative_unit_identity returns N1, and resolving the unit at a
\* date today > D2 returns N2; neither mode returns the other's result.
C12_TwoModes ==
    \A d2 \in Dates :
        (response.op # "none" /\ response.family = "AdministrativeUnit") =>
            \A n1, n2 \in AskedIdentities :
                Renamed(n1, n2, d2) =>
                    /\ (AnsweredAsOfStart /\ Asked[n1].from <= response.date
                            /\ response.date < d2)
                          => response.result = n1
                    /\ (AnsweredAsOfToday /\ response.date > d2)
                          => response.result = n2

\* C12 witness: an affiliation that began before the renaming was resolved to
\* the unit's earlier identity, which is not its current one.
C12_Witness ==
    /\ AnsweredAsOfStart
    /\ \E d2 \in Dates : \E n1, n2 \in AskedIdentities :
          /\ Renamed(n1, n2, d2)
          /\ response.date < d2
          /\ response.result = n1

(* --------------------- the governing unit of a postmark --------------- *)

\* the '-' that the admin list shows when there is nothing to show
Placeholder == 0

\* obj.postal_facility_identity.jurisdictions.filter(
\*     effective_to_date__isnull=True)
OpenAffiliations(table, pfi) == {r \in table : r.identity = pfi /\ r.to = NULL}

\* PostmarkAdmin.get_admin_unit of a postmark of facility identity pfi: the
\* outcomes the call can have, each with the affiliation .first() picked (a
\* set of at most one row) and the value shown.  JurisdictionalAffiliation
\* has no Meta.ordering, so .first() orders by primary key and picks the row
\* inserted first; the affiliation table is a set that does not record the
\* insertion order, and every order of its rows is one they can have been
\* inserted in, so every open affiliation is a row .first() may pick.
get_admin_unit(affs, table, pfi) ==
    IF OpenAffiliations(affs, pfi) = {}
    THEN {[picked |-> {}, shown |-> Placeholder]}
    ELSE UNION {{[picked |-> {a},
                  shown |-> IF identity = None THEN Placeholder ELSE identity] :
                    identity \in get_administrative_unit_identity(table, a)} :
                a \in OpenAffiliations(affs, pfi)}

\* the admin change list renders the 'Administrative Unit' column of a
\* postmark of some facility identity
GetAdminUnit ==
    /\ response = NoResponse
    /\ \E pfi \in FacilityIdentityIds :
       \E res \in get_admin_unit(affiliations, auIdentities, pfi) :
           /\ response' = [op |-> "get_admin_unit", identity |-> pfi,
                           picked |-> res.picked, shown |-> res.shown]
           /\ UNCHANGED <<pfIdentities, auIdentities, affiliations,
                          responsibilities, now, stable, catalogue, auth, columns>>

AdminUnitNext ==
    \/ SaveAffiliation(MaxAffiliations)
    \/ SaveAdministrativeUnitIdentity
    \/ GetAdminUnit
    \/ Deliver

AdminUnitSpec == Init /\ [][AdminUnitNext]_vars

(* -------------- properties: the governing unit of a postmark ---------- *)

AnsweredAdminUnit == response.op = "get_admin_unit"

\* the open affiliations of the facility identity the last request asked
\* about
AskedOpenAffiliations ==
    {r \in affiliations : r.identity = response.identity /\ r.to = NULL}

\* C13: when the facility identity has several open affiliations,
\* get_admin_unit picks one with the latest effective_from; when it has none,
\* get_admin_unit picks nothing and shows the placeholder.
C13_LatestAffiliation ==
    AnsweredAdminUnit =>
        IF AskedOpenAffiliations = {}
        THEN response.picked = {} /\ response.shown = Placeholder
        ELSE /\ response.picked # {}
             /\ \A a \in response.picked : \A b \in AskedOpenAffiliations :
                    b.from <= a.from

(* ------------------------ stable rows and deletion -------------------- *)

\* reference_code values
RefCodes == {"A", "B"}

\* what is left at the primary key of a deleted identity row: primary keys
\* are not used again
Deleted == [entity |-> 0, from |-> 0, to |-> 0]

\* the primary keys of the rows an identity table stores
Stored(table) == {i \in DOMAIN table : table[i] # Deleted}

\* on_delete of PostalFacilityIdentity.postal_facility, were it CASCADE
PostalFacilityIdentity_postal_facility_cascade == "CASCADE"

\* on_delete of PostalFacilityIdentity.postal_facility
PostalFacilityIdentity_postal_facility == "PROTECT"

\* on_delete of AdministrativeUnitIdentity.administrative_unit
AdministrativeUnitIdentity_administrative_unit == "CASCADE"

\* on_delete of AdministrativeUnitResponsibility.administrative_unit
AdministrativeUnitResponsibility_administrative_unit == "CASCADE"

\* on_delete of JurisdictionalAffiliation.postal_facility_identity
JurisdictionalAffiliation_postal_facility_identity == "CASCADE"

\* on_delete of JurisdictionalAffiliation.administrative_unit, were it CASCADE
JurisdictionalAffiliation_administrative_unit_cascade == "CASCADE"

\* on_delete of JurisdictionalAffiliation.administrative_unit
JurisdictionalAffiliation_administrative_unit == "PROTECT"

\* on_delete of Postmark.postal_facility_identity
Postmark_postal_facility_identity == "PROTECT"

\* Collector.collect: rows that refer through a PROTECT key to a row being
\* deleted raise ProtectedError
Protected(on_delete, referrers) == on_delete = "PROTECT" /\ referrers # {}

\* Collector.collect: rows that refer through a CASCADE key to a row being
\* deleted are deleted with it
Cascaded(on_delete, referrers) ==
    IF on_delete = "CASCADE" THEN referrers ELSE {}

\* an identity table without the rows of the given primary keys
Without(table, pks) ==
    [i \in DOMAIN table |-> IF i \in pks THEN Deleted ELSE table[i]]

\* the foreign-key constraints of the database
ForeignKeys ==
    /\ \A i \in Stored(pfIdentities) :
           pfIdentities[i].entity \in DOMAIN postalFacilities
    /\ \A i \in Stored(auIdentities) :
           auIdentities[i].entity \in DOMAIN administrativeUnits
    /\ \A a \in affiliations :
           /\ a.identity \in Stored(pfIdentities)
           /\ a.unit \in DOMAIN administrativeUnits
    /\ \A r \in responsibilities : r.unit \in DOMAIN administrativeUnits
    /\ \A p \in postmarks : p.identity \in Stored(pfIdentities)

\* the rows saved where only their keys matter are open-ended from day 1: no
\* delete handler reads a date
Undated ==
    /\ \A i \in Stored(pfIdentities) :
           pfIdentities[i].from = 1 /\ pfIdentities[i].to = NULL
    /\ \A i \in Stored(auIdentities) :
           auIdentities[i].from = 1 /\ auIdentities[i].to = NULL
    /\ \A a \in affiliations : a.from = 1 /\ a.to = NULL

\* a table of stable rows with one more row
WithRow(table, pk, code) ==
    [e \in DOMAIN table \cup {pk} |-> IF e = pk THEN code ELSE table[e]]

\* a table of stable rows without the row of the given primary key
WithoutRow(table, pk) == [e \in DOMAIN table \ {pk} |-> table[e]]

\* the reference_code is unique among the rows other than pk
UniqueCode(table, pk, code) ==
    \A e \in DOMAIN table : e # pk => table[e] # code

\* POST /postal-facilities/: PostalFacilityViewSet.create by an authenticated
\* principal; the serializer validates the unique reference_code
CreatePostalFacility ==
    /\ response = NoResponse
    /\ \E pk \in Entities \ DOMAIN postalFacilities, code \in RefCodes :
           /\ IF UniqueCode(postalFacilities, pk, code)
              THEN /\ postalFacilities' = WithRow(postalFacilities, pk, code)
                   /\ response' = [op |-> "create_postal_facility",
                                   entity |-> pk, status |-> 201]
              ELSE /\ postalFacilities' = postalFacilities
                   /\ response' = [op |-> "create_postal_facility",
                                   entity |-> pk, status |-> 400]
           /\ UNCHANGED <<pfIdentities, auIdentities, affiliations,
                          responsibilities, now, administrativeUnits,
                          catalogue, auth, columns>>

\* POST /administrative-units/: AdministrativeUnitViewSet.create by an
\* authenticated principal
CreateAdministrativeUnit ==
    /\ response = NoResponse
    /\ \E pk \in Units \ DOMAIN administrativeUnits, code \in RefCodes :
           /\ IF UniqueCode(administrativeUnits, pk, code)
              THEN /\ administrativeUnits' =
                          WithRow(administrativeUnits, pk, code)
                   /\ response' = [op |-> "create_administrative_unit",
                                   entity |-> pk, status |-> 201]
              ELSE /\ administrativeUnits' = administrativeUnits
                   /\ response' = [op |-> "create_administrative_unit",
                                   entity |-> pk, status |-> 400]
           /\ UNCHANGED <<pfIdentities, auIdentities, affiliations,
                          responsibilities, now, postalFacilities,
                          catalogue, auth, columns>>

\* a PostalFacilityIdentity row is saved and the database accepts it
InsertPostalFacilityIdentity ==
    SavePostalFacilityIdentity /\ ForeignKeys' /\ Undated'

\* an AdministrativeUnitIdentity row is saved and the database accepts it
InsertAdministrativeUnitIdentity ==
    SaveAdministrativeUnitIdentity /\ ForeignKeys' /\ Undated'

\* a JurisdictionalAffiliation row is saved and the database accepts it
InsertAffiliation ==
    SaveAffiliation(MaxAffiliations) /\ ForeignKeys' /\ Undated'

\* POST /postmarks/ is answered and the database accepts the row, if any
InsertPostmark == CreatePostmark /\ ForeignKeys'

\* DELETE /postal-facilities/{id}/: PostalFacilityViewSet.destroy by an
\* authenticated principal.  instance.delete() collects the rows that refer
\* to the facility; a ProtectedError is not handled and nothing is deleted
DestroyPostalFacility ==
    /\ response = NoResponse
    /\ \E e \in DOMAIN postalFacilities :
           LET identities == {i \in Stored(pfIdentities) :
                                  pfIdentities[i].entity = e}
               gone == Cascaded(PostalFacilityIdentity_postal_facility,
                                identities)
               jurisdictions == {a \in affiliations : a.identity \in gone}
               protected ==
                   \/ Protected(PostalFacilityIdentity_postal_facility,
                                identities)
                   \/ Protected(JurisdictionalAffiliation_postal_facility_identity,
                                jurisdictions)
                   \/ Protected(Postmark_postal_facility_identity,
                                {p \in postmarks : p.identity \in gone})
           IN  IF protected
               THEN /\ response' = [op |-> "destroy_postal_facility",
                                    entity |-> e, status |-> 500]
                    /\ UNCHANGED <<postalFacilities, pfIdentities,
                                   affiliations>>
               ELSE /\ response' = [op |-> "destroy_postal_facility",
                                    entity |-> e, status |-> 204]
                    /\ postalFacilities' = WithoutRow(postalFacilities, e)
                    /\ pfIdentities' = Without(pfIdentities, gone)
                    /\ affiliations' = affiliations \
                           Cascaded(JurisdictionalAffiliation_postal_facility_identity,
                                    jurisdictions)
    /\ UNCHANGED <<auIdentities, responsibilities, now, administrativeUnits,
                   catalogue, auth, columns>>

\* DELETE /administrative-units/{id}/: AdministrativeUnitViewSet.destroy by
\* an authenticated principal
DestroyAdministrativeUnit ==
    /\ response = NoResponse
    /\ \E u \in DOMAIN administrativeUnits :
           LET identities == {i \in Stored(auIdentities) :
                                  auIdentities[i].entity = u}
               assigned == {r \in responsibilities : r.unit = u}
               governed == {a \in affiliations : a.unit = u}
               protected ==
                   \/ Protected(AdministrativeUnitIdentity_administrative_unit,
                                identities)
                   \/ Protected(AdministrativeUnitResponsibility_administrative_unit,
                                assigned)
                   \/ Protected(JurisdictionalAffiliation_administrative_unit,
                                governed)
           IN  IF protected
               THEN /\ response' = [op |-> "destroy_administrative_unit",
                                    entity |-> u, status |-> 500]
                    /\ UNCHANGED <<administrativeUnits, auIdentities,
                                   responsibilities, affiliations>>
               ELSE /\ response' = [op |-> "destroy_administrative_unit",
                                    entity |-> u, status |-> 204]
                    /\ administrativeUnits' =
                           WithoutRow(administrativeUnits, u)
                    /\ auIdentities' = Without(auIdentities,
                           Cascaded(AdministrativeUnitIdentity_administrative_unit,
                                    identities))
                    /\ responsibilities' = responsibilities \
                           Cascaded(AdministrativeUnitResponsibility_administrative_unit,
                                    assigned)
                    /\ affiliations' = affiliations \
                           Cascaded(JurisdictionalAffiliation_administrative_unit,
                                    governed)
    /\ UNCHANGED <<pfIdentities, now, postalFacilities, catalogue, auth, columns>>

\* DELETE /postal-facility-identities/{id}/:
\* PostalFacilityIdentityViewSet.destroy by an authenticated principal
DestroyPostalFacilityIdentity ==
    /\ response = NoResponse
    /\ \E pk \in Stored(pfIdentities) :
           LET jurisdictions == {a \in affiliations : a.identity = pk}
               protected ==
                   \/ Protected(JurisdictionalAffiliation_postal_facility_identity,
                                jurisdictions)
                   \/ Protected(Postmark_postal_facility_identity,
                                {p \in postmarks : p.identity = pk})
           IN  IF protected
               THEN /\ response' = [op |-> "destroy_postal_facility_identity",
                                    entity |-> pk, status |-> 500]
                    /\ UNCHANGED <<pfIdentities, affiliations>>
               ELSE /\ response' = [op |-> "destroy_postal_facility_identity",
                                    entity |-> pk, status |-> 204]
                    /\ pfIdentities' = Without(pfIdentities, {pk})
                    /\ affiliations' = affiliations \
                           Cascaded(JurisdictionalAffiliation_postal_facility_identity,
                                    jurisdictions)
    /\ UNCHANGED <<auIdentities, responsibilities, now, stable, catalogue, auth, columns>>

\* DELETE /jurisdictional-affiliations/{id}/:
\* JurisdictionalAffiliationViewSet.destroy by an authenticated principal
DestroyAffiliation ==
    /\ response = NoResponse
    /\ \E a \in affiliations :
           /\ affiliations' = affiliations \ {a}
           /\ response' = [op |-> "destroy_affiliation", entity |-> a.unit,
                           status |-> 204]
    /\ UNCHANGED <<pfIdentities, auIdentities, responsibilities, now, stable,
                   catalogue, auth, columns>>

DeletionNext ==
    \/ CreatePostalFacility
    \/ CreateAdministrativeUnit
    \/ InsertPostalFacilityIdentity
    \/ InsertAdministrativeUnitIdentity
    \/ InsertAffiliation
    \/ InsertPostmark
    \/ DestroyPostalFacility
    \/ DestroyAdministrativeUnit
    \/ DestroyPostalFacilityIdentity
    \/ DestroyAffiliation
    \/ Deliver

DeletionSpec == Init /\ [][DeletionNext]_vars

(* ---------------- properties: stable rows and deletion ---------------- *)

\* some stored PostalFacilityIdentity refers to facility e
FacilityReferenced(e) ==
    \E i \in Stored(pfIdentities) : pfIdentities[i].entity = e

\* some stored AdministrativeUnitIdentity refers to unit u as its own unit
UnitReferenced(u) ==
    \E i \in Stored(auIdentities) : auIdentities[i].entity = u

\* the step answers a request of the given kind
Answers(op) == response = NoResponse /\ response'.op = op

\* C14: a PostalFacility is never deleted while a PostalFacilityIdentity
\* refers to it: no step removes such a facility, and a delete request for it
\* is rejected and leaves the facility and all identities as they are.
C14_FacilityProtected ==
    [][/\ \A e \in DOMAIN postalFacilities :
              FacilityReferenced(e) => e \in DOMAIN postalFacilities'
       /\ (Answers("destroy_postal_facility")
               /\ FacilityReferenced(response'.entity))
             => /\ response'.status # 204
                /\ UNCHANGED <<postalFacilities, pfIdentities>>]_vars

\* C14 witness: a delete request for a facility with an identity was
\* rejected, and the facility and its identity are stored.
C14_Witness ==
    /\ response.op = "destroy_postal_facility"
    /\ response.status = 500
    /\ response.entity \in DOMAIN postalFacilities
    /\ FacilityReferenced(response.entity)

\* C15: an AdministrativeUnit is never deleted while an
\* AdministrativeUnitIdentity refers to it as its own unit: no step removes
\* such a unit, and a delete request for it is rejected and leaves the unit
\* and all identities as they are.
C15_UnitProtected ==
    [][/\ \A u \in DOMAIN administrativeUnits :
              UnitReferenced(u) => u \in DOMAIN administrativeUnits'
       /\ (Answers("destroy_administrative_unit")
               /\ UnitReferenced(response'.entity))
             => /\ response'.status # 204
                /\ UNCHANGED <<administrativeUnits, auIdentities>>]_vars

\* every stored affiliation refers to a stored unit and to a stored facility
\* identity
NoDanglingAffiliation ==
    \A a \in affiliations :
        /\ a.unit \in DOMAIN administrativeUnits
        /\ a.identity \in Stored(pfIdentities)

\* C16: deleting a PostalFacilityIdentity deletes exactly the affiliations it
\* owns and no AdministrativeUnit; deleting an affiliation deletes no
\* AdministrativeUnit; no step removes a unit that an affiliation refers to;
\* and no stored affiliation ever refers to a missing unit or a missing
\* facility identity.
C16_AffiliationOwnership ==
    [][/\ (Answers("destroy_postal_facility_identity")
               /\ response'.status = 204)
             => /\ affiliations' =
                       {a \in affiliations : a.identity # response'.entity}
                /\ administrativeUnits' = administrativeUnits
       /\ Answers("destroy_affiliation")
             => administrativeUnits' = administrativeUnits
       /\ \A a \in affiliations : a.unit \in DOMAIN administrativeUnits'
       /\ NoDanglingAffiliation']_vars

\* C16 witness: a delete request for a unit that an affiliation refers to was
\* rejected, and the unit and the affiliation are stored.
C16_Witness ==
    /\ response.op = "destroy_administrative_unit"
    /\ response.status = 500
    /\ response.entity \in DOMAIN administrativeUnits
    /\ \E a \in affiliations : a.unit = response.entity

(* ------------------------- updating stable rows ----------------------- *)

\* a request body that carries no reference_code
Missing == ""

\* the reference_code field of a request body
RequestCodes == RefCodes \cup {Missing}

\* ModelSerializer with fields = '__all__': reference_code is not among the
\* read_only_fields, so the serializer takes it from the request; it is
\* required unless the update is partial and must be unique among the other
\* rows.  The result is the status and the code that is saved.
Serializer_update(table, pk, method, code) ==
    IF code = Missing
    THEN IF method = "PATCH"
         THEN [status |-> 200, reference_code |-> table[pk]]
         ELSE [status |-> 400, reference_code |-> table[pk]]
    ELSE IF UniqueCode(table, pk, code)
         THEN [status |-> 200, reference_code |-> code]
         ELSE [status |-> 400, reference_code |-> table[pk]]

\* PUT or PATCH /postal-facilities/{id}/: PostalFacilityViewSet.update and
\* partial_update by an authenticated principal
UpdatePostalFacility ==
    /\ response = NoResponse
    /\ \E e \in DOMAIN postalFacilities, method \in {"PUT", "PATCH"},
          code \in RequestCodes :
           LET saved == Serializer_update(postalFacilities, e, method, code)
           IN  /\ postalFacilities' =
                      [postalFacilities EXCEPT ![e] = saved.reference_code]
               /\ response' = [op |-> "update_postal_facility", entity |-> e,
                               status |-> saved.status]
    /\ UNCHANGED <<pfIdentities, auIdentities, affiliations, responsibilities,
                   now, administrativeUnits, catalogue, auth, columns>>

\* PUT or PATCH /administrative-units/{id}/: AdministrativeUnitViewSet.update
\* and partial_update by an authenticated principal
UpdateAdministrativeUnit ==
    /\ response = NoResponse
    /\ \E u \in DOMAIN administrativeUnits, method \in {"PUT", "PATCH"},
          code \in RequestCodes :
           LET saved == Serializer_update(administrativeUnits, u, method, code)
           IN  /\ administrativeUnits' =
                      [administrativeUnits EXCEPT ![u] = saved.reference_code]
               /\ response' = [op |-> "update_administrative_unit",
                               entity |-> u, status |-> saved.status]
    /\ UNCHANGED <<pfIdentities, auIdentities, affiliations, responsibilities,
                   now, postalFacilities, catalogue, auth, columns>>

ReferenceNext ==
    \/ CreatePostalFacility
    \/ CreateAdministrativeUnit
    \/ UpdatePostalFacility
    \/ UpdateAdministrativeUnit
    \/ Deliver

ReferenceSpec == Init /\ [][ReferenceNext]_vars

\* C17: the reference_code of a PostalFacility or AdministrativeUnit never
\* changes after creation: every step leaves each stored stable row with the
\* reference_code it had.
C17_ReferenceCodeFixed ==
    [][/\ \A e \in DOMAIN postalFacilities \cap DOMAIN postalFacilities' :
              postalFacilities'[e] = postalFacilities[e]
       /\ \A u \in DOMAIN administrativeUnits \cap DOMAIN administrativeUnits' :
              administrativeUnits'[u] = administrativeUnits[u]]_vars

(* ------------------------------ restore_auth -------------------------- *)

\* the import files of the command
RestoreFiles == {"groups", "users", "emails"}

\* whether importing a row raises
Outcomes == {"ok", "error"}

\* a file argument: no path given, a path that cannot be opened, or a
\* dataset of rows
NoPath == [path |-> "none", rows |-> <<>>]

Unreadable == [path |-> "unreadable", rows |-> <<>>]

Datasets ==
    {[path |-> "readable", rows |-> rows] :
        rows \in UNION {[1..n -> Outcomes] : n \in 0..MaxRows}}

\* users_path is required; groups_path and emails_path are optional
Arguments ==
    {files \in [RestoreFiles -> Datasets \cup {NoPath, Unreadable}] :
         files["users"] # NoPath}

\* the order of the import blocks of handle, were users imported first
Stages_users_first == <<"users", "groups", "emails">>

\* the order of the import blocks of handle
Stages == <<"groups", "users", "emails">>

\* what handle does after import block i
After(i) == IF i < Len(Stages) THEN Stages[i + 1] ELSE "exit"

\* the position of import block f in handle
StageOf(f) == CHOOSE i \in DOMAIN Stages : Stages[i] = f

\* the import blocks
AtStage == run.pc \in RestoreFiles

\* result.has_errors(), were no error ever reported
has_errors_never(file) == FALSE

\* result.has_errors(): some row of the file raised
has_errors(file) == \E i \in DOMAIN file.rows : file.rows[i] = "error"

\* python manage.py restore_auth users [groups] [emails] [--dry-run]:
\* transaction.atomic opens a transaction and handle starts
RestoreAuth ==
    /\ response = NoResponse
    /\ run = Idle
    /\ \E files \in Arguments, dry_run \in BOOLEAN :
           run' = [pc |-> Stages[1], next |-> 1, files |-> files,
                   dry_run |-> dry_run, log |-> <<>>]
    /\ transaction' = {}
    /\ UNCHANGED <<pfIdentities, auIdentities, affiliations, responsibilities,
                   now, response, stable, catalogue, columns, committed>>

\* "if groups_path: ... else: skipped"
SkipFile ==
    /\ AtStage
    /\ run.files[run.pc] = NoPath
    /\ run' = [run EXCEPT !.pc = After(StageOf(run.pc)), !.next = 1]
    /\ UNCHANGED <<pfIdentities, auIdentities, affiliations, responsibilities,
                   now, response, stable, catalogue, columns, committed, transaction>>

\* open(path) raises: the exception leaves handle and transaction.atomic
\* rolls the transaction back
OpenFails ==
    /\ AtStage
    /\ run.files[run.pc] = Unreadable
    /\ run' = [run EXCEPT !.pc = "raised"]
    /\ transaction' = {}
    /\ UNCHANGED <<pfIdentities, auIdentities, affiliations, responsibilities,
                   now, response, stable, catalogue, columns, committed>>

\* Resource.import_data, one row of the dataset: a row that raises is
\* recorded in the result and skipped, any other row is saved
ImportRow ==
    /\ AtStage
    /\ run.files[run.pc].path = "readable"
    /\ run.next \in DOMAIN run.files[run.pc].rows
    /\ LET row == [file |-> run.pc, row |-> run.next]
       IN  /\ run' = [run EXCEPT !.next = @ + 1, !.log = Append(@, row)]
           /\ transaction' =
                  IF run.files[run.pc].rows[run.next] = "ok"
                  THEN transaction \cup {row}
                  ELSE transaction
    /\ UNCHANGED <<pfIdentities, auIdentities, affiliations, responsibilities,
                   now, response, stable, catalogue, columns, committed>>

\* Resource.import_data returns: with dry_run it rolls the rows of the file
\* back.  handle then reports the errors, returns if dry_run and goes on to
\* the next block otherwise
FinishFile ==
    /\ AtStage
    /\ run.files[run.pc].path = "readable"
    /\ run.next = Len(run.files[run.pc].rows) + 1
    /\ transaction' = IF run.dry_run
                      THEN {r \in transaction : r.file # run.pc}
                      ELSE transaction
    /\ run' = [run EXCEPT
                  !.pc = IF has_errors(run.files[run.pc]) /\ run.dry_run
                         THEN "exit"
                         ELSE After(StageOf(run.pc)),
                  !.next = 1]
    /\ UNCHANGED <<pfIdentities, auIdentities, affiliations, responsibilities,
                   now, response, stable, catalogue, columns, committed>>

\* handle returns and transaction.atomic commits
Exit ==
    /\ run.pc = "exit"
    /\ committed' = committed \cup transaction
    /\ transaction' = {}
    /\ run' = [run EXCEPT !.pc = "done"]
    /\ UNCHANGED <<pfIdentities, auIdentities, affiliations, responsibilities,
                   now, response, stable, catalogue, columns>>

RestoreNext ==
    \/ RestoreAuth
    \/ SkipFile
    \/ OpenFails
    \/ ImportRow
    \/ FinishFile
    \/ Exit

RestoreSpec == Init /\ [][RestoreNext]_vars

(* ----------------------- properties: restore_auth --------------------- *)

\* the rows of the files given to the run
RowsOf(files) ==
    {r \in [file : RestoreFiles, row : 1..MaxRows] :
         r.row \in DOMAIN files[r.file].rows}

\* some row of some file of the run fails to import
SomeRowFails(files) == \E f \in RestoreFiles : has_errors(files[f])

\* the run is over
RunOver == run.pc \in {"done", "raised"}

\* C18: restore_auth without --dry-run is atomic: when the run is over and
\* some row of any of the files failed to import, no row of any file is
\* committed; otherwise (and if the command itself did not fail) all rows of
\* all files are committed.
C18_AllOrNothing ==
    (RunOver /\ ~run.dry_run)
        => IF SomeRowFails(run.files) \/ run.pc = "raised"
           THEN committed = {}
           ELSE committed = RowsOf(run.files)

\* the claimed order of the files
Rank(f) == IF f = "groups" THEN 1 ELSE IF f = "users" THEN 2 ELSE 3

\* every row of file f of the run has been imported
Complete(f) ==
    \A i \in DOMAIN run.files[f].rows :
        \E k \in DOMAIN run.log : run.log[k] = [file |-> f, row |-> i]

\* C19: in every run of restore_auth the rows are imported in the order
\* groups, users, emails, and when a row of a later file has been imported
\* every row of each earlier file has been.
C19_ImportOrder ==
    run # Idle
        => /\ \A j, k \in DOMAIN run.log :
                  j < k => Rank(run.log[j].file) <= Rank(run.log[k].file)
           /\ \A k \in DOMAIN run.log : \A f \in RestoreFiles :
                  Rank(f) < Rank(run.log[k].file) => Complete(f)

\* C19 witness: a run over three files with rows, past its last row
C19_Witness ==
    /\ run.pc = "done"
    /\ \A f \in RestoreFiles : run.files[f].rows # <<>>
    /\ \A f \in RestoreFiles : Complete(f)
    /\ \E k \in DOMAIN run.log : run.log[k].file = "emails"

(* ------------------------ identity_at_date endpoint ------------------- *)

\* the value of a decimal digit
Digit == ("0" :> 0) @@ ("1" :> 1) @@ ("2" :> 2) @@ ("3" :> 3) @@ ("4" :> 4)
         @@ ("5" :> 5) @@ ("6" :> 6) @@ ("7" :> 7) @@ ("8" :> 8) @@ ("9" :> 9)

\* the date_str values of the requests, each the sequence of its characters
DateStrings ==
    { <<>>,
      <<"2","0","2","3","-","1","2","-","3","1">>,
      <<"2","0","2","4","-","0","1","-","0","1">>,
      <<"2","0","2","4","-","0","1","-","0","2">>,
      <<"2","0","2","4","-","0","1","-","0","3">>,
      <<"2","0","2","4","-","0","1","-","3","2">>,
      <<"2","0","2","3","-","0","2","-","2","9">>,
      <<"2","0","2","4","-","1","3","-","0","1">>,
      <<"0","0","0","0","-","0","1","-","0","1">>,
      <<"2","0","2","4","-","1","-","2">>,
      <<"0","1","/","0","2","/","2","0","2","4">>,
      <<"t","o","d","a","y">>,
      <<"2","0","2","4","0","1","0","2">> }

\* request.query_params: with or without a date parameter
QueryParams == {<<>>} \cup {[date |-> cs] : cs \in DateStrings}

\* the integer the digits stand for
RECURSIVE int(_)
int(cs) ==
    IF cs = <<>> THEN 0
    ELSE 10 * int(SubSeq(cs, 1, Len(cs) - 1)) + Digit[cs[Len(cs)]]

isdigit(cs) == \A i \in DOMAIN cs : cs[i] \in DOMAIN Digit

is_leap(year) ==
    year % 4 = 0 /\ (year % 100 # 0 \/ year % 400 = 0)

days_in_month(year, month) ==
    IF month = 2 THEN (IF is_leap(year) THEN 29 ELSE 28)
    ELSE IF month \in {4, 6, 9, 11} THEN 30 ELSE 31

RECURSIVE days_before_month(_, _)
days_before_month(year, month) ==
    IF month = 1 THEN 0
    ELSE days_before_month(year, month - 1) + days_in_month(year, month - 1)

\* date.toordinal(): 0001-01-01 is day 1
toordinal(d) ==
    LET y == d.year - 1
    IN  y * 365 + (y \div 4) - (y \div 100) + (y \div 400)
          + days_before_month(d.year, d.month) + d.day

\* the model's day 1 is 2024-01-01
Epoch == toordinal([year |-> 2024, month |-> 1, day |-> 1]) - 1

\* the parse raised ValueError
ValueError == [year |-> 0, month |-> 0, day |-> 0]

\* date(year, month, day), were a day past the end of the month carried into
\* the month as its last day
date_clamped(year, month, day) ==
    IF year \in 1..9999 /\ month \in 1..12 /\ day >= 1
    THEN [year |-> year, month |-> month,
          day |-> IF day > days_in_month(year, month)
                  THEN days_in_month(year, month) ELSE day]
    ELSE ValueError

\* date(year, month, day): ValueError unless the fields are in range
date(year, month, day) ==
    IF year \in 1..9999 /\ month \in 1..12
          /\ day \in 1..days_in_month(year, month)
    THEN [year |-> year, month |-> month, day |-> day]
    ELSE ValueError

\* YYYY-MM-DD
Extended(cs) ==
    /\ Len(cs) = 10
    /\ cs[5] = "-" /\ cs[8] = "-"
    /\ isdigit(SubSeq(cs, 1, 4) \o SubSeq(cs, 6, 7) \o SubSeq(cs, 9, 10))

\* YYYYMMDD
Basic(cs) == Len(cs) = 8 /\ isdigit(cs)

\* date.fromisoformat: the outcomes the interpreter can give.  Every version
\* parses YYYY-MM-DD; YYYYMMDD is parsed from Python 3.11 on and raises
\* ValueError before; anything else raises ValueError
fromisoformat(cs) ==
    IF Extended(cs)
    THEN {date(int(SubSeq(cs, 1, 4)), int(SubSeq(cs, 6, 7)),
               int(SubSeq(cs, 9, 10)))}
    ELSE IF Basic(cs)
    THEN {ValueError,
          date(int(SubSeq(cs, 1, 4)), int(SubSeq(cs, 5, 6)),
               int(SubSeq(cs, 7, 8)))}
    ELSE {ValueError}

\* GET /postal-facilities/{id}/identity_at_date/?date=...:
\* PostalFacilityViewSet.identity_at_date.  The answer records the date that
\* was looked up (0 when none was)
IdentityAtDate ==
    /\ response = NoResponse
    /\ \E e \in Entities, query_params \in QueryParams :
           LET answer(status, day, identity, error) ==
                   [op |-> "identity_at_date", entity |-> e,
                    query_params |-> query_params, status |-> status,
                    date |-> day, result |-> identity, error |-> error]
           IN  IF "date" \notin DOMAIN query_params
                     \/ query_params.date = <<>>
               THEN response' = answer(400, 0, None,
                                       "date parameter required (YYYY-MM-DD)")
               ELSE \E target_date \in fromisoformat(query_params.date) :
                        IF target_date = ValueError
                        THEN response' = answer(400, 0, None,
                                 "Invalid date format, use YYYY-MM-DD")
                        ELSE LET day == toordinal(target_date) - Epoch
                             IN  \E identity \in
                                     PostalFacility_get_identity_at_date(
                                         pfIdentities, e, day) :
                                     response' =
                                         IF identity # None
                                         THEN answer(200, day, identity, "")
                                         ELSE answer(404, day, None,
                                                  "No identity found")
    /\ UNCHANGED <<pfIdentities, auIdentities, affiliations, responsibilities,
                   now, stable, catalogue, auth, columns>>

DateNext ==
    \/ SavePostalFacilityIdentity
    \/ IdentityAtDate
    \/ Deliver

DateSpec == Init /\ [][DateNext]_vars

(* ------------------ properties: identity_at_date endpoint ------------- *)

\* the calendar day each date_str stands for, as the day number of the
\* model; a date_str that stands for no calendar day has no entry
CalendarDay ==
    (<<"2","0","2","3","-","1","2","-","3","1">> :> 0)
    @@ (<<"2","0","2","4","-","0","1","-","0","1">> :> 1)
    @@ (<<"2","0","2","4","-","0","1","-","0","2">> :> 2)
    @@ (<<"2","0","2","4","-","0","1","-","0","3">> :> 3)
    @@ (<<"2","0","2","4","0","1","0","2">> :> 2)

\* the last request was an identity_at_date request
AnsweredIdentityAtDate == response.op = "identity_at_date"

\* the identities of the asked facility that are in effect on the day
InEffect(day) ==
    {i \in Identities(pfIdentities, response.entity) :
         InInterval(pfIdentities[i], day)}

\* the answer is the one for calendar day `day`: an identity in effect on
\* that day, or 404 if there is none
AnswerFor(day) ==
    /\ response.date = day
    /\ IF InEffect(day) = {}
       THEN response.status = 404
       ELSE response.status = 200 /\ response.result \in InEffect(day)

\* the answer is a rejection with a reason
Rejected == response.status = 400 /\ response.error # ""

Reached(f) ==
    \/ run.pc = f
    \/ \E k \in DOMAIN run.log : run.log[k].file = f

\* C25: a run of restore_auth with --dry-run never changes the stored auth
\* rows, and once a file of the run has reported errors no later file is
\* read or imported.
C25_DryRun ==
    (run # Idle /\ run.dry_run)
        => /\ committed = {}
           /\ \A f, g \in RestoreFiles :
                  (Rank(f) < Rank(g)
                       /\ \E i \in DOMAIN run.files[f].rows :
                              run.files[f].rows[i] = "error")
                      => ~Reached(g)

\* C25 witness: a dry run is over whose groups file had a failing row and
\* whose users and emails files have rows that were never imported
C25_Witness ==
    /\ run.pc = "done"
    /\ run.dry_run
    /\ \E i \in DOMAIN run.files["groups"].rows :
           run.files["groups"].rows[i] = "error"
    /\ \E i \in DOMAIN run.files["groups"].rows :
           run.files["groups"].rows[i] = "ok"
    /\ run.files["users"].rows # <<>>
    /\ run.files["emails"].rows # <<>>
    /\ Complete("groups")
    /\ committed = {}

(* ------------------------------ coordinates --------------------------- *)

\* a latitude or longitude column: NULL, or a decimal number of degrees
NullCoordinate == [null |-> TRUE, degrees |-> 0]

Coordinates ==
    {NullCoordinate} \cup [null : {FALSE}, degrees : {-1, 0, 1}]

\* the truth value Python gives a column value: None and Decimal(0) are false
bool(value) == ~value.null /\ value.degrees # 0

\* PostalFacilityIdentity.get_coordinates
get_coordinates(identity, postal_facility) ==
    IF bool(identity.latitude) /\ bool(identity.longitude)
    THEN <<identity.latitude, identity.longitude>>
    ELSE <<postal_facility.latitude, postal_facility.longitude>>

\* identity.get_coordinates() for an identity and its facility
GetCoordinates ==
    /\ response = NoResponse
    /\ \E identity, postal_facility \in
              [latitude : Coordinates, longitude : Coordinates] :
           response' = [op |-> "get_coordinates", identity |-> identity,
                        postal_facility |-> postal_facility,
                        result |-> get_coordinates(identity, postal_facility)]
    /\ UNCHANGED <<pfIdentities, auIdentities, affiliations, responsibilities,
                   now, stable, catalogue, auth, columns>>

CoordinatesNext ==
    \/ GetCoordinates
    \/ Deliver

CoordinatesSpec == Init /\ [][CoordinatesNext]_vars

\* C26: get_coordinates returns the identity's own (latitude, longitude)
\* whenever both are non-null, whatever their value, and the facility's
\* (latitude, longitude) when one of them is null.
C26_OverrideWhenPresent ==
    response.op = "get_coordinates" =>
        IF ~response.identity.latitude.null /\ ~response.identity.longitude.null
        THEN response.result =
                 <<response.identity.latitude, response.identity.longitude>>
        ELSE response.result =
                 <<response.postal_facility.latitude,
                   response.postal_facility.longitude>>

(* ------------------------ facilities of a unit ------------------------ *)

\* filter(administrative_unit=unit, effective_to_date__isnull=True)
CurrentAffiliationsOf(table, unit) ==
    {a \in table : a.unit = unit /\ a.to = NULL}

\* [aff.postal_facility_identity.postal_facility for aff in
\* current_affiliations], as the set of the facilities in the list
FacilitiesOf(table, identities, unit) ==
    {identities[a.identity].entity : a \in CurrentAffiliationsOf(table, unit)}

\* a JurisdictionalAffiliation row of a stored PostalFacilityIdentity is
\* saved
SaveAffiliationOfIdentity ==
    /\ SaveAffiliation(MaxPermissionAffiliations)
    /\ \A a \in affiliations' : a.identity \in DOMAIN pfIdentities

\* GET /administrative-units/{id}/facilities/:
\* AdministrativeUnitViewSet.facilities
Facilities ==
    /\ response = NoResponse
    /\ \E unit \in Units :
           response' = [op |-> "facilities", unit |-> unit,
                        result |-> FacilitiesOf(affiliations, pfIdentities,
                                                unit)]
    /\ UNCHANGED <<pfIdentities, auIdentities, affiliations, responsibilities,
                   now, stable, catalogue, auth, columns>>

FacilitiesNext ==
    \/ SavePostalFacilityIdentity
    \/ SaveAffiliationOfIdentity
    \/ Tick
    \/ Facilities
    \/ Deliver

FacilitiesSpec == Init /\ [][FacilitiesNext]_vars

\* C28: the facilities endpoint lists exactly the facilities that have an
\* identity with an affiliation to the unit whose interval
\* [effective_from, effective_to) contains today's date.
C28_FacilitiesToday ==
    response.op = "facilities" =>
        response.result =
            {pfIdentities[a.identity].entity :
                 a \in {q \in affiliations :
                            q.unit = response.unit /\ InInterval(q, now.today)}}

(* ------------------------------- my_region ---------------------------- *)

\* [resp.administrative_unit for resp in responsibilities] of
\* filter(group__in=user_groups, is_active=True)
responsible_units(resps, user_groups) ==
    {r.unit : r \in {q \in resps : q.group \in user_groups /\ q.active}}

\* [aff.postal_facility_identity for aff in affiliations] of
\* filter(administrative_unit__in=responsible_units,
\*        effective_to_date__isnull=True)
facility_identities(affs, units) ==
    {a.identity : a \in {q \in affs : q.unit \in units /\ q.to = NULL}}

\* GET /postmarks/my_region/: PostmarkViewSet.my_region, permission_classes
\* [IsAuthenticated].  The answer is the set of facility identities whose
\* postmarks are listed
MyRegion ==
    /\ response = NoResponse
    /\ \E user \in Principals :
           response' =
               IF user.authenticated
               THEN [op |-> "my_region", user |-> user, status |-> 200,
                     result |-> facility_identities(affiliations,
                                    responsible_units(responsibilities,
                                                      user.groups))]
               ELSE [op |-> "my_region", user |-> user, status |-> 403,
                     result |-> {}]
    /\ UNCHANGED <<pfIdentities, auIdentities, affiliations, responsibilities,
                   now, stable, catalogue, auth, columns>>

RegionNext ==
    \/ SaveAffiliation(MaxPermissionAffiliations)
    \/ SaveResponsibility
    \/ Tick
    \/ MyRegion
    \/ Deliver

RegionSpec == Init /\ [][RegionNext]_vars

\* C29: for an authenticated principal, my_region lists the postmarks of a
\* facility identity exactly when IsResponsibleForRegion permits that
\* principal a mutating request on such a postmark.
C29_RegionMatchesPermission ==
    (response.op = "my_region" /\ response.user.authenticated)
        => \A pfi \in FacilityIdentityIds :
               pfi \in response.result
                   <=> has_object_permission("PUT", response.user.groups,
                           get_responsible_groups(affiliations,
                               responsibilities, pfi, now.today,
                               now.midnight))

(* --------------------------- inline formsets -------------------------- *)

\* the inline forms of one submission of the PostalFacility change page:
\* at most one added row, one edited row and one row ticked for deletion
FormsOf(entity) ==
    [new     : {{}} \cup {{r} : r \in {q \in IdentityRows : q.entity = entity}},
     changed : {{}} \cup {{[pk |-> pk, row |-> r]} :
                    pk \in Identities(pfIdentities, entity),
                    r \in {q \in IdentityRows : q.entity = entity}},
     deleted : {{}} \cup {{pk} : pk \in Identities(pfIdentities, entity)}]

\* formset.save(commit=False): the added and the edited instances, built
\* and not saved; the rows ticked for deletion are put in
\* formset.deleted_objects and not deleted
formset_save(forms) ==
    forms.new \cup {c.row : c \in {q \in forms.changed : q.pk \notin forms.deleted}}

\* InlineRevisionMixin.save_formset under PostalFacilityAdmin: the
\* instances get created_by and modified_by in memory; none is saved, none
\* of formset.deleted_objects is deleted, and PostalFacilityIdentity has no
\* many-to-many field for save_m2m to write
SaveFormset ==
    /\ response = NoResponse
    /\ \E entity \in Entities :
       \E forms \in FormsOf(entity) :
           /\ \A c \in forms.changed : c.row # pfIdentities[c.pk]
           /\ response' = [op |-> "save_formset", entity |-> entity,
                           forms |-> forms,
                           instances |-> formset_save(forms)]
           /\ UNCHANGED <<pfIdentities, auIdentities, affiliations,
                          responsibilities, now, stable, catalogue, auth,
                          columns>>

FormsetNext ==
    \/ SavePostalFacilityIdentity
    \/ SaveFormset
    \/ Deliver

FormsetSpec == Init /\ [][FormsetNext]_vars

(* --------------------- properties: inline formsets -------------------- *)

\* C23: after save_formset every added inline row is a stored row, every
\* edited inline row is stored with its new values, and every row ticked
\* for deletion is gone.
C23_InlinesPersisted ==
    response.op = "save_formset"
        => /\ \A r \in response.forms.new :
                  \E pk \in DOMAIN pfIdentities : pfIdentities[pk] = r
           /\ \A c \in response.forms.changed :
                  c.pk \notin response.forms.deleted
                      => pfIdentities[c.pk] = c.row
           /\ \A pk \in response.forms.deleted : pfIdentities[pk] = Deleted

(* ------------------ identity track and jurisdiction track ------------- *)

\* the names a facility identity is renamed to
FacilityNames == {1, 2}

\* the reverse relation `identity.jurisdictions`: the affiliation rows whose
\* PostalFacilityIdentityID is the primary key of the identity
jurisdictions(affs, pk) == {a \in affs : a.identity = pk}

\* the administrative units that govern the identity on the day
governing_units(affs, pk, day) ==
    {a.unit : a \in {q \in jurisdictions(affs, pk) : InInterval(q, day)}}

\* PostalFacilityIdentityAdmin: the first identity row is saved
SaveFirstIdentity ==
    /\ pfIdentities = <<>>
    /\ SavePostalFacilityIdentity

\* mutant: the name is changed by deleting the row and saving a new one, and
\* the delete cascades to the affiliations of the row
SaveFacilityName_reinsert ==
    /\ response = NoResponse
    /\ \E pk \in DOMAIN pfIdentities, name \in FacilityNames :
           /\ pfIdentities[pk] # Deleted
           /\ facility_name' = (pk :> name) @@ facility_name
           /\ affiliations' = affiliations \ jurisdictions(affiliations, pk)
           /\ UNCHANGED <<pfIdentities, auIdentities, responsibilities, now,
                          response, stable, catalogue, auth, audited>>

\* PostalFacilityIdentityAdmin change view with a new facility_name:
\* save_model saves the row in place, an UPDATE of the row with its primary key
SaveFacilityName ==
    /\ response = NoResponse
    /\ \E pk \in DOMAIN pfIdentities, name \in FacilityNames :
           /\ pfIdentities[pk] # Deleted
           /\ ~(pk \in DOMAIN facility_name /\ facility_name[pk] = name)
           /\ facility_name' = (pk :> name) @@ facility_name
           /\ UNCHANGED <<pfIdentities, auIdentities, affiliations,
                          responsibilities, now, response, stable, catalogue,
                          auth, audited>>

\* JurisdictionalAffiliationAdmin change view: the row is saved with the
\* values of the form; setting effective_to_date ends the affiliation
ChangeAffiliation ==
    /\ response = NoResponse
    /\ \E r \in affiliations, form \in AffiliationRows :
           /\ form # r
           /\ form \notin affiliations
           /\ form.identity \in DOMAIN pfIdentities
           /\ affiliations' = (affiliations \ {r}) \cup {form}
           /\ UNCHANGED <<pfIdentities, auIdentities, responsibilities, now,
                          response, stable, catalogue, auth, columns>>

\* PostalFacilityViewSet.identity_at_date on a day of the model
AskIdentityAtDate ==
    /\ response = NoResponse
    /\ \E e \in Entities, d \in Dates :
       \E res \in PostalFacility_get_identity_at_date(pfIdentities, e, d) :
           /\ response' = [op |-> "track_identity_at_date", entity |-> e,
                           date |-> d, result |-> res]
           /\ UNCHANGED <<pfIdentities, auIdentities, affiliations,
                          responsibilities, now, stable, catalogue, auth,
                          columns>>

TrackNext ==
    \/ SaveFirstIdentity
    \/ SaveAffiliationOfIdentity
    \/ SaveFacilityName
    \/ ChangeAffiliation
    \/ AskIdentityAtDate
    \/ Deliver

TrackSpec == Init /\ [][TrackNext]_vars

(* ------------ properties: identity track and jurisdiction track ------- *)

\* C22: a step that changes the name of a facility identity leaves the
\* affiliations of every identity, and the units governing it on every day,
\* as they were; a step that creates, ends or changes an affiliation leaves
\* the identity of every facility on every day as it was.
C22_TracksIndependent ==
    [][ /\ facility_name' # facility_name
            => \A pk \in DOMAIN pfIdentities :
                   /\ jurisdictions(affiliations', pk)
                          = jurisdictions(affiliations, pk)
                   /\ \A day \in ClockDates :
                          governing_units(affiliations', pk, day)
                              = governing_units(affiliations, pk, day)
        /\ affiliations' # affiliations
            => \A e \in Entities, d \in Dates :
                   PostalFacility_get_identity_at_date(pfIdentities', e, d)
                       = PostalFacility_get_identity_at_date(pfIdentities, e, d)
      ]_vars

\* an identity that holds an ended affiliation has been renamed
C22_Witness ==
    \E pk \in DOMAIN facility_name :
        /\ pfIdentities[pk] # Deleted
        /\ \E a \in affiliations : a.identity = pk /\ a.to # NULL

(* ----------------------------- audit columns -------------------------- *)

\* the users of auth.User; a user is told from another by its groups
Users == Principals \ {AnonymousUser}

\* queryset.model of a viewset
queryset ==
    [PostalFacilityViewSet |-> "PostalFacility",
     PostalFacilityIdentityViewSet |-> "PostalFacilityIdentity",
     AdministrativeUnitViewSet |-> "AdministrativeUnit",
     AdministrativeUnitIdentityViewSet |-> "AdministrativeUnitIdentity",
     AdministrativeUnitResponsibilityViewSet |->
         "AdministrativeUnitResponsibility",
     JurisdictionalAffiliationViewSet |-> "JurisdictionalAffiliation",
     PostmarkShapeViewSet |-> "PostmarkShape",
     LetteringStyleViewSet |-> "LetteringStyle",
     FramingStyleViewSet |-> "FramingStyle",
     ColorViewSet |-> "Color",
     DateFormatViewSet |-> "DateFormat",
     PostmarkViewSet |-> "Postmark",
     PostmarkImageViewSet |-> "PostmarkImage",
     PostmarkValuationViewSet |-> "PostmarkValuation",
     PostmarkPublicationViewSet |-> "PostmarkPublication",
     PostmarkPublicationReferenceViewSet |-> "PostmarkPublicationReference",
     PostcoverViewSet |-> "Postcover",
     PostcoverImageViewSet |-> "PostcoverImage"]

\* the models registered with a TimestampedModelAdmin of their own
Registered ==
    {queryset[view] : view \in ViewSets} \ {"PostmarkValuation"}

\* the models whose rows belong to a postmark and through it to the region
\* of a facility identity
Regional == {"Postmark", "PostmarkImage"}

\* the TimestampedModel columns of a row: created_by, modified_by, whether
\* modified_date is later than created_date, and for a Postmark its
\* postal_facility_identity, for a PostmarkImage that of its postmark
AuditedRows ==
    [created_by : Users, modified_by : Users, modified : BOOLEAN,
     identity : FacilityIdentityIds \cup {None}]

\* `audited` maps a model to the row of its table with the first primary
\* key, once the row is stored
Holds(model) == model \in DOMAIN audited

\* the viewsets that define perform_create and perform_update
Stamping ==
    {"PostalFacilityViewSet", "AdministrativeUnitViewSet",
     "AdministrativeUnitResponsibilityViewSet", "PostmarkViewSet",
     "PostmarkImageViewSet", "PostcoverViewSet"}

\* the audit columns the serializer of the viewset takes from the request:
\* a column is writable unless the serializer declares it read-only or
\* leaves it out of Meta.fields
Writable(view) ==
    IF view \in {"PostmarkShapeViewSet", "LetteringStyleViewSet",
                 "FramingStyleViewSet", "ColorViewSet", "DateFormatViewSet"}
    THEN {"created_by", "modified_by"}
    ELSE IF view = "AdministrativeUnitIdentityViewSet"
    THEN {"modified_by"}
    ELSE {}

\* the viewsets whose serializer has no field for a NOT NULL foreign key
\* that perform_create does not supply either (postmark, postcover)
Incomplete ==
    {"PostmarkImageViewSet", "PostmarkValuationViewSet",
     "PostmarkPublicationReferenceViewSet", "PostcoverImageViewSet"}

\* the body of a request: the audit columns and the facility identity named
\* in it
RequestData ==
    [created_by : Users, modified_by : Users, identity : FacilityIdentityIds]

\* the columns the INSERT of a create request carries a value for
Supplied(view, user) ==
    IF view \in Stamping
    THEN IF user.authenticated THEN {"created_by", "modified_by"} ELSE {}
    ELSE Writable(view)

\* the answer to a request on a viewset
Reply(op, view, user, status) ==
    [op |-> op, view |-> view, user |-> user, status |-> status]

\* the tables the audited handlers leave alone
AuditFrame ==
    UNCHANGED <<pfIdentities, auIdentities, affiliations, responsibilities,
                now, stable, catalogue, auth, facility_name>>

\* the facility identity column of a row of the model
IdentityColumn(model, identity) ==
    IF model \in Regional THEN identity ELSE None

\* the responsible groups of the region the row belongs to
ResponsibleFor(model) ==
    get_responsible_groups(affiliations, responsibilities,
                           audited[model].identity, now.today, now.midnight)

\* TimestampedModelAdmin.save_model with change = False: a staff user adds
\* a row on the admin page of the model
SaveModel ==
    /\ response = NoResponse
    /\ \E model \in Registered, user \in Users,
          identity \in FacilityIdentityIds :
           /\ ~Holds(model)
           /\ audited' = (model :> [created_by |-> user, modified_by |-> user,
                                    modified |-> FALSE,
                                    identity |-> IdentityColumn(model, identity)])
                         @@ audited
           /\ UNCHANGED response
           /\ AuditFrame

\* POST on the list route of a viewset: CreateModelMixin.create.  A column
\* neither perform_create nor the request supplies is NULL in the INSERT,
\* which the database refuses (IntegrityError, a server error)
Create ==
    /\ response = NoResponse
    /\ \E view \in ViewSets, user \in Principals, data \in RequestData :
           /\ ~Holds(queryset[view])
           /\ IF ~check_permissions(view, "POST", user)
              THEN /\ response' = Reply("create", view, user, 403)
                   /\ audited' = audited
              ELSE IF \/ Supplied(view, user) # {"created_by", "modified_by"}
                      \/ view \in Incomplete
              THEN /\ response' = Reply("create", view, user, 500)
                   /\ audited' = audited
              ELSE /\ response' = Reply("create", view, user, 201)
                   /\ audited' =
                          (queryset[view] :>
                              [created_by |-> IF view \in Stamping THEN user
                                              ELSE data.created_by,
                               modified_by |-> IF view \in Stamping THEN user
                                               ELSE data.modified_by,
                               modified |-> FALSE,
                               identity |-> IdentityColumn(queryset[view],
                                                           data.identity)])
                          @@ audited
           /\ AuditFrame

\* PUT or PATCH on the detail route of a viewset: UpdateModelMixin.update.
\* get_object asks the object permissions; perform_update stamps modified_by
\* where the viewset defines it, the serializer writes the columns it takes
\* from the request, and the save moves modified_date
Update ==
    /\ response = NoResponse
    /\ \E view \in ViewSets, user \in Principals, data \in RequestData,
          method \in {"PUT", "PATCH"} :
           LET model == queryset[view]
           IN  /\ Holds(model)
               /\ IF \/ ~check_permissions(view, method, user)
                     \/ ~check_object_permissions(view, method, user,
                                                  ResponsibleFor(model))
                  THEN /\ response' = Reply("update", view, user, 403)
                       /\ audited' = audited
                  ELSE /\ response' = Reply("update", view, user, 200)
                       /\ audited' = [audited EXCEPT ![model] =
                              [created_by |->
                                   IF "created_by" \in Writable(view)
                                   THEN data.created_by ELSE @.created_by,
                               modified_by |->
                                   IF view \in Stamping THEN user
                                   ELSE IF "modified_by" \in Writable(view)
                                   THEN data.modified_by ELSE @.modified_by,
                               modified |-> TRUE,
                               identity |->
                                   IF model = "Postmark" THEN data.identity
                                   ELSE @.identity]]
               /\ AuditFrame

\* DELETE on the detail route of a viewset: DestroyModelMixin.destroy of a
\* row that no other stored row refers to
Destroy ==
    /\ response = NoResponse
    /\ \E view \in ViewSets, user \in Principals :
           LET model == queryset[view]
           IN  /\ DOMAIN audited = {model}
               /\ IF \/ ~check_permissions(view, "DELETE", user)
                     \/ ~check_object_permissions(view, "DELETE", user,
                                                  ResponsibleFor(model))
                  THEN /\ response' = Reply("destroy", view, user, 403)
                       /\ audited' = audited
                  ELSE /\ response' = Reply("destroy", view, user, 204)
                       /\ audited' = <<>>
               /\ AuditFrame

\* the color_id of a request: none, the stored Color, or no Color at all
ColorIds == {0, 1, 2}

\* POST /postmarks/{id}/add_color/: PostmarkViewSet.add_color.
\* PostmarkColor.objects.create is given created_by and no modified_by: the
\* INSERT is refused, and `except Exception` answers 400 with the message
AddColor ==
    /\ response = NoResponse
    /\ Holds("Postmark")
    /\ \E user \in Principals, color_id \in ColorIds :
           /\ response' =
                  Reply("add_color", "PostmarkViewSet", user,
                      IF \/ ~check_permissions("PostmarkViewSet", "POST", user)
                         \/ ~check_object_permissions("PostmarkViewSet", "POST",
                                user, ResponsibleFor("Postmark"))
                      THEN 403
                      ELSE IF color_id = 0 THEN 400
                      ELSE IF ~(color_id = 1 /\ Holds("Color")) THEN 404
                      ELSE 400)
                  @@ [color_id |-> color_id]
           /\ audited' = audited
           /\ AuditFrame

\* POST /postmarks/{id}/add_date_range/: PostmarkViewSet.add_date_range.
\* serializer.save is given postmark and created_by and no modified_by: the
\* INSERT of the PostmarkDatesSeen row is refused and nothing catches it
AddDateRange ==
    /\ response = NoResponse
    /\ Holds("Postmark")
    /\ \E user \in Principals, is_valid \in BOOLEAN :
           /\ response' =
                  Reply("add_date_range", "PostmarkViewSet", user,
                      IF \/ ~check_permissions("PostmarkViewSet", "POST", user)
                         \/ ~check_object_permissions("PostmarkViewSet", "POST",
                                user, ResponsibleFor("Postmark"))
                      THEN 403
                      ELSE IF is_valid THEN 500 ELSE 400)
           /\ audited' = audited
           /\ AuditFrame

\* mutant: all() for any(): a principal without a group passes
in_responsible_group_all(user_groups, responsible_groups) ==
    \A group \in user_groups : group \in GroupsIn(responsible_groups)

\* any(group in responsible_groups for group in user_groups)
in_responsible_group(user_groups, responsible_groups) ==
    \E group \in user_groups : group \in GroupsIn(responsible_groups)

\* the body of PostmarkImageViewSet.approve and reject, which differ in the
\* message of the answer: image.save() writes the row as it was read and
\* moves modified_date
moderate(op, user) ==
    IF ~check_permissions("PostmarkImageViewSet", "POST", user)
    THEN /\ response' = Reply(op, "PostmarkImageViewSet", user, 403)
         /\ audited' = audited
    ELSE IF ~in_responsible_group(user.groups, ResponsibleFor("PostmarkImage"))
    THEN /\ response' = Reply(op, "PostmarkImageViewSet", user, 403)
         /\ audited' = audited
    ELSE /\ response' = Reply(op, "PostmarkImageViewSet", user, 200)
         /\ audited' = [audited EXCEPT !["PostmarkImage"].modified = TRUE]

\* POST /postmark-images/{id}/approve/: PostmarkImageViewSet.approve
Approve ==
    /\ response = NoResponse
    /\ Holds("PostmarkImage")
    /\ \E user \in Principals : moderate("approve", user)
    /\ AuditFrame

\* POST /postmark-images/{id}/reject/: PostmarkImageViewSet.reject
Reject ==
    /\ response = NoResponse
    /\ Holds("PostmarkImage")
    /\ \E user \in Principals : moderate("reject", user)
    /\ AuditFrame

\* a row is added on an admin page while no row is stored
SaveFirstModel ==
    /\ audited = <<>>
    /\ SaveModel

\* a create request while no row is stored
CreateFirst ==
    /\ audited = <<>>
    /\ Create

AuditNext ==
    \/ SaveFirstModel
    \/ CreateFirst
    \/ Update
    \/ Destroy
    \/ AddColor
    \/ AddDateRange
    \/ Approve
    \/ Reject
    \/ Deliver

AuditSpec == Init /\ [][AuditNext]_vars

(* ----------------------- properties: audit columns -------------------- *)

\* a request is answered in this step
Answered == response = NoResponse /\ response' # NoResponse

\* C21: a create request of an authenticated principal stores the row with
\* created_by and modified_by set to the principal; an update, approve or
\* reject that is granted leaves created_by as it was and sets modified_by
\* to the acting principal.
C21_AuditStamping ==
    [][ Answered =>
          LET model == queryset[response'.view]
          IN  /\ (response'.op = "create" /\ response'.user.authenticated)
                  => /\ response'.status = 201
                     /\ audited'[model].created_by = response'.user
                     /\ audited'[model].modified_by = response'.user
              /\ (response'.op \in {"update", "approve", "reject"}
                      /\ response'.status = 200)
                  => /\ audited'[model].created_by = audited[model].created_by
                     /\ audited'[model].modified_by = response'.user
      ]_vars

\* C30: a request of an unauthenticated principal that could change a row
\* is answered 403 and leaves every table as it was.
C30_AnonymousChangesNothing ==
    [][ (Answered /\ ~response'.user.authenticated)
            => /\ response'.status = 403
               /\ UNCHANGED <<pfIdentities, auIdentities, affiliations,
                              responsibilities, stable, catalogue, auth,
                              columns>>
      ]_vars

\* an unauthenticated principal asked to delete the one stored row
C30_Witness ==
    /\ response.op = "destroy"
    /\ ~response.user.authenticated
    /\ response.status = 403
    /\ DOMAIN audited = {queryset[response.view]}

(* ------------------------------ moderation ---------------------------- *)

\* PostmarkImageAdmin: a staff user who is in no group adds the image of a
\* postmark
SaveImage ==
    /\ SaveModel
    /\ DOMAIN audited' = {"PostmarkImage"}
    /\ audited'["PostmarkImage"].created_by.groups = {}

ModerationNext ==
    \/ SaveAffiliation(MaxPermissionAffiliations)
    \/ SaveResponsibility
    \/ SaveImage
    \/ Approve
    \/ Reject
    \/ Deliver

ModerationSpec == Init /\ [][ModerationNext]_vars

(* ------------------------ properties: moderation ---------------------- *)

\* C27: approve and reject answer 403 and leave the image as it was for a
\* principal none of whose groups is among the responsible groups of the
\* postmark of the image; they save the image, and answer 200, exactly for
\* a principal with a group among them.
C27_RegionalModeration ==
    [][ (Answered /\ response'.op \in {"approve", "reject"})
            => LET responsible_groups ==
                       GroupsIn(ResponsibleFor("PostmarkImage"))
                   outsider ==
                       response'.user.groups \cap responsible_groups = {}
               IN  /\ outsider => /\ response'.status = 403
                                  /\ audited' = audited
                   /\ ~outsider => /\ response'.status = 200
                                   /\ audited'["PostmarkImage"].modified
      ]_vars

\* an image was approved for a principal with a responsible group and a
\* group that is not responsible
C27_Witness ==
    /\ response.op = "approve"
    /\ response.status = 200
    /\ audited["PostmarkImage"].modified
    /\ response.user.groups \ GroupsIn(ResponsibleFor("PostmarkImage")) # {}

(* --------------------------- colors of a postmark --------------------- *)

\* PostmarkAdmin and ColorAdmin: a staff user who is in no group adds a
\* postmark or a color
SavePostmarkOrColor ==
    /\ SaveModel
    /\ DOMAIN audited' \subseteq {"Postmark", "Color"}
    /\ \A model \in DOMAIN audited' : audited'[model].created_by.groups = {}

ColorNext ==
    \/ SaveAffiliation(MaxPermissionAffiliations)
    \/ SaveResponsibility
    \/ SavePostmarkOrColor
    \/ AddColor
    \/ AddDateRange
    \/ Deliver

ColorSpec == Init /\ [][ColorNext]_vars

(* -------------------- properties: colors of a postmark ---------------- *)

\* C24: add_color by a principal who passes the permission checks of the
\* postmark, with the color_id of a stored Color that is not attached to the
\* postmark, is answered 200 'color added'.  No handler stores a
\* PostmarkColor row, so no stored color is ever attached.
C24_ColorAdded ==
    (/\ response.op = "add_color"
     /\ response.color_id = 1
     /\ Holds("Color")
     /\ check_permissions("PostmarkViewSet", "POST", response.user)
     /\ check_object_permissions("PostmarkViewSet", "POST", response.user,
                                 ResponsibleFor("Postmark")))
        => response.status = 200

====
